---- MODULE Spec2Model ----
(***************************************************************************)
(* State-machine model of AutoTrader (src/autotrader.py): the streaming    *)
(* ratio statistics, the trough/gate tracker, order submission and the     *)
(* fill / status / error callbacks.                                        *)
(*                                                                         *)
(* The Python floats of the statistics are modelled as exact rationals     *)
(* <<numerator, denominator>> in lowest terms.  A z-score                  *)
(* (x - mean) / sqrt(sum_sq / n) is kept as its sign and its square, which *)
(* decide every comparison the code makes on it.                           *)
(***************************************************************************)
EXTENDS Integers, Sequences, FiniteSets, TLC

\* ------------------------------------------------------------------ bounds

\* Number of order-book updates delivered in one run.
MaxQuotes == 5

\* Number of order-filled callbacks delivered in one run.
MaxFills == 1

\* ------------------------------------------------ constants of the program

STRONG_INDICATOR == <<2, 1>>
MEDIUM_INDICATOR == <<3, 2>>
WEAK_INDICATOR == <<1, 1>>
LOT_SIZE == 10
POSITION_LIMIT == 100
TICK_SIZE_IN_CENTS == 100
MINIMUM_BID == 1
MAXIMUM_ASK == 2147483647
MIN_BID_NEAREST_TICK == ((MINIMUM_BID + TICK_SIZE_IN_CENTS) \div TICK_SIZE_IN_CENTS) * TICK_SIZE_IN_CENTS
MAX_ASK_NEAREST_TICK == (MAXIMUM_ASK \div TICK_SIZE_IN_CENTS) * TICK_SIZE_IN_CENTS

\* ------------------------------------------------------ rational arithmetic

Abs(i) == IF i < 0 THEN -i ELSE i

RECURSIVE Gcd(_, _)
Gcd(a, b) == IF b = 0 THEN a ELSE Gcd(b, a % b)

\* n / d in lowest terms with a positive denominator (d # 0).
Rat(n, d) ==
    LET g == Gcd(Abs(n), Abs(d))
        s == IF d < 0 THEN -1 ELSE 1
    IN  <<(s * n) \div g, (s * d) \div g>>

Zero == <<0, 1>>
RAdd(a, b) == Rat(a[1] * b[2] + b[1] * a[2], a[2] * b[2])
RSub(a, b) == Rat(a[1] * b[2] - b[1] * a[2], a[2] * b[2])
RMul(a, b) == Rat(a[1] * b[1], a[2] * b[2])
RDiv(a, b) == Rat(a[1] * b[2], a[2] * b[1])
RLess(a, b) == a[1] * b[2] < b[1] * a[2]
RGeq(a, b) == ~RLess(a, b)
RSign(a) == IF a[1] < 0 THEN -1 ELSE IF a[1] > 0 THEN 1 ELSE 0
\* int(a) for a >= 0
RInt(a) == a[1] \div a[2]

\* ------------------------------------------------------------------ inputs

\* Instrument 0 is the future, instrument 1 the ETF.
Instruments == {0, 1}

\* Best <<bid, ask>> of an order book, in cents (bid_prices[0], ask_prices[0]);
\* a price of 0 is a side of the book with no order.  The future's midpoints
\* are 4, 8 and 12, the ETF's are 0 (an empty book) and 4.
FutureQuotes == {<<0, 800>>, <<700, 900>>, <<1100, 1300>>}
EtfQuotes == {<<0, 0>>, <<300, 500>>}
Quotes(instrument) == IF instrument = 0 THEN FutureQuotes ELSE EtfQuotes

\* remaining_volume values of a status callback.
Remainings == {0, 5}

\* ------------------------------------------------------------------- state

VARIABLES
    order_ids,                \* next value of itertools.count(1)
    bids, asks,               \* ids of live primary orders
    ask_id, ask_price, bid_id, bid_price, position,
    future_price, etf_price,  \* midpoints recorded per instrument
    ratios, ratios_sum, standard_deviation_sum,
    zscore,                   \* [def, sgn, sq]: self.zscore once assigned
    BuyingTroph, SellingTroph,
    ActiveOrders,             \* gate flags, a dict keyed by strings
    sent,                     \* orders handed to the gateway, in order
    filled,                   \* filled[i]: lots the exchange has filled of sent[i]
    troughNo,                 \* number of regime transitions so far
    nquotes, nfills

stats == <<future_price, etf_price, ratios, ratios_sum, standard_deviation_sum, zscore>>
regime == <<BuyingTroph, SellingTroph, ActiveOrders, troughNo>>
tracking == <<bids, asks, ask_id, bid_id>>
prices == <<ask_price, bid_price>>
gateway == <<order_ids, sent>>
vars == <<order_ids, bids, asks, ask_id, ask_price, bid_id, bid_price, position,
          future_price, etf_price, ratios, ratios_sum, standard_deviation_sum,
          zscore, BuyingTroph, SellingTroph, ActiveOrders, sent, filled,
          troughNo, nquotes, nfills>>

Init ==
    /\ order_ids = 1
    /\ bids = {}
    /\ asks = {}
    /\ ask_id = 0 /\ ask_price = 0 /\ bid_id = 0 /\ bid_price = 0 /\ position = 0
    /\ future_price = <<>>
    /\ etf_price = <<>>
    /\ ratios = <<>>
    /\ ratios_sum = Zero
    /\ standard_deviation_sum = Zero
    /\ zscore = [def |-> FALSE, sgn |-> 0, sq |-> Zero]
    /\ BuyingTroph = TRUE
    /\ SellingTroph = FALSE
    /\ ActiveOrders = [k \in {"StrongBuy", "MediumBuy", "WeakBuy",
                              "StrongSell", "MediumSell", "WeakSell"} |-> FALSE]
    /\ sent = <<>>
    /\ filled = <<>>
    /\ troughNo = 0
    /\ nquotes = 0
    /\ nfills = 0

\* ------------------------------------------------- streaming ratio statistics

Last(s) == s[Len(s)]

\* (bid_prices[0] + ask_prices[0]) / 200.0
Midpoint(q) == Rat(q[1] + q[2], 200)

\* Fold with the running sum assigned instead of accumulated.
FoldAssigns(x, rs, sum, sdsum) ==
    LET rs2 == Append(rs, x)
        sum2 == x
        mean == RDiv(sum2, <<Len(rs2), 1>>)
        dev == RSub(x, mean)
        sdsum2 == RAdd(sdsum, RMul(dev, dev))
    IN  [ratios |-> rs2, ratios_sum |-> sum2, mean |-> mean,
         standard_deviation_sum |-> sdsum2,
         variance |-> RDiv(sdsum2, <<Len(rs2), 1>>)]

\* The fold of one ratio sample x into the running sums; mean and variance
\* are the values of self.mean and self.standard_deviation ** 2.
Fold(x, rs, sum, sdsum) ==
    LET rs2 == Append(rs, x)
        sum2 == RAdd(sum, x)
        mean == RDiv(sum2, <<Len(rs2), 1>>)
        dev == RSub(x, mean)
        sdsum2 == RAdd(sdsum, RMul(dev, dev))
    IN  [ratios |-> rs2, ratios_sum |-> sum2, mean |-> mean,
         standard_deviation_sum |-> sdsum2,
         variance |-> RDiv(sdsum2, <<Len(rs2), 1>>)]

\* (new_ratio - mean) / standard_deviation, for a non-zero standard deviation.
ZScore(x, mean, variance) ==
    LET dev == RSub(x, mean)
    IN  [def |-> TRUE, sgn |-> RSign(dev), sq |-> RDiv(RMul(dev, dev), variance)]

\* abs(zscore) >= t for a threshold t > 0
AbsGeq(z, t) == RGeq(z.sq, RMul(t, t))

\* NewRatio with a missing midpoint read as 1.0 instead of raising.
NewRatioDefault(fp, ep) ==
    LET f == IF fp = <<>> THEN <<1, 1>> ELSE Last(fp)
        e == IF ep = <<>> THEN <<1, 1>> ELSE Last(ep)
    IN  IF e = Zero THEN [exc |-> "ZeroDivisionError", x |-> Zero]
        ELSE [exc |-> "none", x |-> RDiv(f, e)]

\* self.future_price[-1] / self.etf_price[-1]: an empty list raises IndexError
\* and a zero ETF midpoint raises ZeroDivisionError.
NewRatio(fp, ep) ==
    IF fp = <<>> \/ ep = <<>> THEN [exc |-> "IndexError", x |-> Zero]
    ELSE IF Last(ep) = Zero THEN [exc |-> "ZeroDivisionError", x |-> Zero]
    ELSE [exc |-> "none", x |-> RDiv(Last(fp), Last(ep))]

\* ------------------------------------------------------ trough / gate tracker

\* dict.update({k: v}): an absent key is added.
Update(ao, k, v) == [x \in DOMAIN ao \cup {k} |-> IF x = k THEN v ELSE ao[x]]

\* Entering the buying trough: sell trades may be made again.
ResetSell(ao) == Update(Update(Update(ao, "StrongSell", FALSE), "MediumSell", FALSE), "LowSell", FALSE)

\* Entering the selling trough: buy trades may be made again.
ResetBuy(ao) == Update(Update(Update(ao, "StrongBuy", FALSE), "MediumBuy", FALSE), "LowBuy", FALSE)

\* Troph that sets the entered trough without clearing the one it leaves.
TrophKeepsOther(z, B, S, ao) ==
    IF z.sgn < 0 /\ S = TRUE
    THEN [BuyingTroph |-> TRUE, SellingTroph |-> S, ActiveOrders |-> ResetSell(ao), flip |-> 1]
    ELSE IF z.sgn > 0 /\ B = TRUE
    THEN [BuyingTroph |-> B, SellingTroph |-> TRUE, ActiveOrders |-> ResetBuy(ao), flip |-> 1]
    ELSE [BuyingTroph |-> B, SellingTroph |-> S, ActiveOrders |-> ao, flip |-> 0]

\* Troph with <= and >= for < and >: a z-score of zero flips the trough.
TrophOnZero(z, B, S, ao) ==
    IF z.sgn <= 0 /\ S = TRUE
    THEN [BuyingTroph |-> TRUE, SellingTroph |-> FALSE, ActiveOrders |-> ResetSell(ao), flip |-> 1]
    ELSE IF z.sgn >= 0 /\ B = TRUE
    THEN [BuyingTroph |-> FALSE, SellingTroph |-> TRUE, ActiveOrders |-> ResetBuy(ao), flip |-> 1]
    ELSE [BuyingTroph |-> B, SellingTroph |-> S, ActiveOrders |-> ao, flip |-> 0]

\* Troph with the two sign tests exchanged.
TrophInverted(z, B, S, ao) ==
    IF z.sgn > 0 /\ S = TRUE
    THEN [BuyingTroph |-> TRUE, SellingTroph |-> FALSE, ActiveOrders |-> ResetSell(ao), flip |-> 1]
    ELSE IF z.sgn < 0 /\ B = TRUE
    THEN [BuyingTroph |-> FALSE, SellingTroph |-> TRUE, ActiveOrders |-> ResetBuy(ao), flip |-> 1]
    ELSE [BuyingTroph |-> B, SellingTroph |-> S, ActiveOrders |-> ao, flip |-> 0]

\* "see what troph we are located in"
Troph(z, B, S, ao) ==
    IF z.sgn < 0 /\ S = TRUE
    THEN [BuyingTroph |-> TRUE, SellingTroph |-> FALSE, ActiveOrders |-> ResetSell(ao), flip |-> 1]
    ELSE IF z.sgn > 0 /\ B = TRUE
    THEN [BuyingTroph |-> FALSE, SellingTroph |-> TRUE, ActiveOrders |-> ResetBuy(ao), flip |-> 1]
    ELSE [BuyingTroph |-> B, SellingTroph |-> S, ActiveOrders |-> ao, flip |-> 0]

\* Strength with the thresholds tested in ascending order.
StrengthAscending(z) ==
    IF AbsGeq(z, WEAK_INDICATOR) THEN WEAK_INDICATOR
    ELSE IF AbsGeq(z, MEDIUM_INDICATOR) THEN MEDIUM_INDICATOR
    ELSE STRONG_INDICATOR

\* Signal strength and volume of a z-score that reaches WEAK_INDICATOR.
Strength(z) ==
    IF AbsGeq(z, STRONG_INDICATOR) THEN STRONG_INDICATOR
    ELSE IF AbsGeq(z, MEDIUM_INDICATOR) THEN MEDIUM_INDICATOR
    ELSE WEAK_INDICATOR

\* int(K * signal_strength) with K = LOT_SIZE / WEAK_INDICATOR
VolumeToBuy(signal_strength) ==
    RInt(RMul(RDiv(<<LOT_SIZE, 1>>, WEAK_INDICATOR), signal_strength))

\* GateSide that sends without recording the strength in its flag.
GateSideNoFlag(ao, ss, strong, medium, weak) ==
    IF ss = STRONG_INDICATOR /\ ao[strong] = FALSE
    THEN [orderSend |-> TRUE, ActiveOrders |-> ao]
    ELSE IF ss = MEDIUM_INDICATOR /\ ao[medium] = FALSE
    THEN [orderSend |-> TRUE, ActiveOrders |-> ao]
    ELSE IF ss = WEAK_INDICATOR /\ ao[weak] = FALSE
    THEN [orderSend |-> TRUE, ActiveOrders |-> ao]
    ELSE [orderSend |-> FALSE, ActiveOrders |-> ao]

\* The gate of one side: the first signal of a strength in the trough sets its
\* flag and sends; strong, medium and weak name that side's three keys.
GateSide(ao, ss, strong, medium, weak) ==
    IF ss = STRONG_INDICATOR /\ ao[strong] = FALSE
    THEN [orderSend |-> TRUE, ActiveOrders |-> Update(ao, strong, TRUE)]
    ELSE IF ss = MEDIUM_INDICATOR /\ ao[medium] = FALSE
    THEN [orderSend |-> TRUE, ActiveOrders |-> Update(ao, medium, TRUE)]
    ELSE IF ss = WEAK_INDICATOR /\ ao[weak] = FALSE
    THEN [orderSend |-> TRUE, ActiveOrders |-> Update(ao, weak, TRUE)]
    ELSE [orderSend |-> FALSE, ActiveOrders |-> ao]

\* PriceAdjustment with the quotient truncated toward zero.
PriceAdjustmentTrunc(pos) ==
    - (IF pos >= 0 THEN pos \div LOT_SIZE ELSE - ((- pos) \div LOT_SIZE)) * TICK_SIZE_IN_CENTS

\* price_adjustment = - (self.position // LOT_SIZE) * TICK_SIZE_IN_CENTS
PriceAdjustment(pos) == - (pos \div LOT_SIZE) * TICK_SIZE_IN_CENTS

\* new_ask_price / new_bid_price from the best price p of the side
NewPrice(p, pos) == IF p # 0 THEN p + PriceAdjustment(pos) ELSE 0

\* IssueId reading the counter without advancing it.
IssueIdStuck(c) == [id |-> c, next |-> c]

\* next(self.order_ids)
IssueId(c) == [id |-> c, next |-> c + 1]

\* An order as handed to the gateway, with the signal strength that sized it,
\* the trough it was sent in and the number of ratio samples folded by then.
Order(kind, id, side, price, volume, lifespan, ss, t, n) ==
    [kind |-> kind, id |-> id, side |-> side, price |-> price, volume |-> volume,
     lifespan |-> lifespan, strength |-> ss, trough |-> t, sample |-> n]

\* ------------------------------------------------- on_order_book_update_message

\* SendBuy without self.bids.add(self.bid_id).
SendBuyNoAdd(q, ss) ==
    LET n == IssueId(order_ids)
        new_bid_price == NewPrice(q[1], position)
    IN  /\ bid_id' = n.id
        /\ order_ids' = n.next
        /\ bid_price' = new_bid_price
        /\ sent' = Append(sent, Order("insert", n.id, "BUY", new_bid_price,
                                      VolumeToBuy(ss), "FILL_AND_KILL", ss, troughNo', Len(ratios')))
        /\ filled' = Append(filled, 0)
        /\ UNCHANGED <<bids, asks, ask_id, ask_price>>

\* "if orderSend:" of the buying trough
SendBuy(q, ss) ==
    LET n == IssueId(order_ids)
        new_bid_price == NewPrice(q[1], position)
    IN  /\ bid_id' = n.id
        /\ order_ids' = n.next
        /\ bid_price' = new_bid_price
        /\ sent' = Append(sent, Order("insert", n.id, "BUY", new_bid_price,
                                      VolumeToBuy(ss), "FILL_AND_KILL", ss, troughNo', Len(ratios')))
        /\ filled' = Append(filled, 0)
        /\ bids' = bids \cup {n.id}
        /\ UNCHANGED <<asks, ask_id, ask_price>>

\* "if orderSend:" of the selling trough
SendSell(q, ss) ==
    LET n == IssueId(order_ids)
        new_ask_price == NewPrice(q[2], position)
    IN  /\ ask_id' = n.id
        /\ order_ids' = n.next
        /\ ask_price' = new_ask_price
        /\ sent' = Append(sent, Order("insert", n.id, "SELL", new_ask_price,
                                      VolumeToBuy(ss), "FILL_AND_KILL", ss, troughNo', Len(ratios')))
        /\ filled' = Append(filled, 0)
        /\ asks' = asks \cup {n.id}
        /\ UNCHANGED <<bids, bid_id, bid_price>>

NoOrder == UNCHANGED <<tracking, prices, gateway, filled>>

\* The handler from the trough test on, for a z-score z that was computed.
Decide(q, z) ==
    LET tr == Troph(z, BuyingTroph, SellingTroph, ActiveOrders)
    IN  /\ zscore' = z
        /\ BuyingTroph' = tr.BuyingTroph
        /\ SellingTroph' = tr.SellingTroph
        /\ troughNo' = troughNo + tr.flip
        /\ IF ~AbsGeq(z, WEAK_INDICATOR)
           THEN ActiveOrders' = tr.ActiveOrders /\ NoOrder
           ELSE LET ss == Strength(z)
                IN  IF tr.BuyingTroph
                    THEN LET g == GateSide(tr.ActiveOrders, ss, "StrongBuy", "MediumBuy", "WeakBuy")
                         IN  /\ ActiveOrders' = g.ActiveOrders
                             /\ IF g.orderSend THEN SendBuy(q, ss) ELSE NoOrder
                    ELSE IF tr.SellingTroph
                    THEN LET g == GateSide(tr.ActiveOrders, ss, "StrongSell", "MediumSell", "WeakSell")
                         IN  /\ ActiveOrders' = g.ActiveOrders
                             /\ IF g.orderSend THEN SendSell(q, ss) ELSE NoOrder
                    ELSE ActiveOrders' = tr.ActiveOrders /\ NoOrder

\* The exception handler: what was assigned before the raise stays assigned.
Caught == UNCHANGED <<zscore, regime>> /\ NoOrder

BookUpdate(instrument, q) ==
    LET mid == Midpoint(q)
        fp == IF instrument = 0 THEN Append(future_price, mid) ELSE future_price
        ep == IF instrument = 0 THEN etf_price ELSE Append(etf_price, mid)
        r == NewRatio(fp, ep)
    IN  /\ future_price' = fp
        /\ etf_price' = ep
        /\ nquotes' = nquotes + 1
        /\ UNCHANGED <<position, nfills>>
        /\ IF r.exc # "none"
           THEN UNCHANGED <<ratios, ratios_sum, standard_deviation_sum>> /\ Caught
           ELSE LET st == Fold(r.x, ratios, ratios_sum, standard_deviation_sum)
                IN  /\ ratios' = st.ratios
                    /\ ratios_sum' = st.ratios_sum
                    /\ standard_deviation_sum' = st.standard_deviation_sum
                    /\ IF st.variance = Zero
                       THEN Caught
                       ELSE Decide(q, ZScore(r.x, st.mean, st.variance))

OnOrderBookUpdate ==
    /\ nquotes < MaxQuotes
    /\ \E instrument \in Instruments : \E q \in Quotes(instrument) : BookUpdate(instrument, q)

\* ------------------------------------------------------ on_order_filled_message

\* Volumes the exchange may report for sent[i]: a partial fill of 5 lots or
\* all that is left of the order.
FillVolumes(i) ==
    {v \in {5, sent[i].volume - filled[i]} : v > 0 /\ filled[i] + v <= sent[i].volume}

\* Hedge with a volume of LOT_SIZE whatever was filled.
HedgeLotSize(side, price, volume) ==
    LET n == IssueId(order_ids)
    IN  /\ order_ids' = n.next
        /\ sent' = Append(sent, Order("hedge", n.id, side, price, LOT_SIZE, "NONE", Zero, troughNo, Len(ratios)))

Hedge(side, price, volume) ==
    LET n == IssueId(order_ids)
    IN  /\ order_ids' = n.next
        /\ sent' = Append(sent, Order("hedge", n.id, side, price, volume, "NONE", Zero, troughNo, Len(ratios)))

\* The callback for sent[i], an order sent with send_insert_order.
OrderFilled(i, volume) ==
    LET client_order_id == sent[i].id
    IN  /\ sent[i].kind = "insert"
        /\ nfills' = nfills + 1
        /\ IF client_order_id \in bids
           THEN /\ position' = position + volume
                /\ Hedge("ASK", MIN_BID_NEAREST_TICK, volume)
                /\ filled' = Append([filled EXCEPT ![i] = @ + volume], 0)
           ELSE IF client_order_id \in asks
           THEN /\ position' = position - volume
                /\ Hedge("BID", MAX_ASK_NEAREST_TICK, volume)
                /\ filled' = Append([filled EXCEPT ![i] = @ + volume], 0)
           ELSE /\ filled' = [filled EXCEPT ![i] = @ + volume]
                /\ UNCHANGED <<position, gateway>>
        /\ UNCHANGED <<stats, regime, tracking, prices, nquotes>>

OnOrderFilled ==
    /\ nfills < MaxFills
    /\ \E i \in 1..Len(sent) : \E volume \in FillVolumes(i) : OrderFilled(i, volume)

\* ------------------------------------------------------ on_order_status_message

\* StatusEffect that discards the id but leaves bid_id and ask_id as they are.
StatusEffectNoReset(client_order_id, remaining_volume, b_id, a_id, bs, as) ==
    IF remaining_volume = 0
    THEN [bid_id |-> b_id, ask_id |-> a_id,
          bids |-> bs \ {client_order_id}, asks |-> as \ {client_order_id}]
    ELSE [bid_id |-> b_id, ask_id |-> a_id, bids |-> bs, asks |-> as]

\* StatusEffect without the two discards.
StatusEffectNoDiscard(client_order_id, remaining_volume, b_id, a_id, bs, as) ==
    IF remaining_volume = 0
    THEN [bid_id |-> IF client_order_id = b_id THEN 0 ELSE b_id,
          ask_id |-> IF client_order_id # b_id /\ client_order_id = a_id THEN 0 ELSE a_id,
          bids |-> bs, asks |-> as]
    ELSE [bid_id |-> b_id, ask_id |-> a_id, bids |-> bs, asks |-> as]

StatusEffect(client_order_id, remaining_volume, b_id, a_id, bs, as) ==
    IF remaining_volume = 0
    THEN [bid_id |-> IF client_order_id = b_id THEN 0 ELSE b_id,
          ask_id |-> IF client_order_id # b_id /\ client_order_id = a_id THEN 0 ELSE a_id,
          bids |-> bs \ {client_order_id},
          asks |-> as \ {client_order_id}]
    ELSE [bid_id |-> b_id, ask_id |-> a_id, bids |-> bs, asks |-> as]

Track(t) ==
    /\ bid_id' = t.bid_id
    /\ ask_id' = t.ask_id
    /\ bids' = t.bids
    /\ asks' = t.asks

\* Ids of the orders sent with send_insert_order: the ids an order-status or
\* error callback of the exchange may carry.
InsertIds == {sent[i].id : i \in {j \in 1..Len(sent) : sent[j].kind = "insert"}}

OrderStatus(client_order_id, remaining_volume) ==
    /\ Track(StatusEffect(client_order_id, remaining_volume, bid_id, ask_id, bids, asks))
    /\ UNCHANGED <<stats, regime, prices, gateway, position, filled, nquotes, nfills>>

OnOrderStatus ==
    \E client_order_id \in InsertIds, remaining_volume \in Remainings :
        OrderStatus(client_order_id, remaining_volume)

\* ------------------------------------------------------------ on_error_message

\* ErrorEffect that looks the id up among the bids only.
ErrorEffectBidsOnly(client_order_id, b_id, a_id, bs, as) ==
    IF client_order_id # 0 /\ client_order_id \in bs
    THEN StatusEffect(client_order_id, 0, b_id, a_id, bs, as)
    ELSE [bid_id |-> b_id, ask_id |-> a_id, bids |-> bs, asks |-> as]

ErrorEffect(client_order_id, b_id, a_id, bs, as) ==
    IF client_order_id # 0 /\ (client_order_id \in bs \/ client_order_id \in as)
    THEN StatusEffect(client_order_id, 0, b_id, a_id, bs, as)
    ELSE [bid_id |-> b_id, ask_id |-> a_id, bids |-> bs, asks |-> as]

Error(client_order_id) ==
    /\ Track(ErrorEffect(client_order_id, bid_id, ask_id, bids, asks))
    /\ UNCHANGED <<stats, regime, prices, gateway, position, filled, nquotes, nfills>>

OnError == \E client_order_id \in InsertIds \cup {0} : Error(client_order_id)

\* ------------------------------- on_hedge_filled_message, on_trade_ticks_message

\* OnHedgeFilled tracking the id of a hedge order as a live bid.
OnHedgeFilledTracks ==
    \E i \in 1..Len(sent) :
        /\ sent[i].kind = "hedge"
        /\ bids' = bids \cup {sent[i].id}
        /\ UNCHANGED <<stats, regime, prices, gateway, position, filled, nquotes, nfills,
                       asks, bid_id, ask_id>>

\* Both handlers only log.
OnHedgeFilled ==
    /\ \E i \in 1..Len(sent) : sent[i].kind = "hedge"
    /\ UNCHANGED vars

OnTradeTicks == UNCHANGED vars

\* ------------------------------------------------------------ specification

Next ==
    \/ OnOrderBookUpdate
    \/ OnOrderFilled
    \/ OnOrderStatus
    \/ OnError
    \/ OnHedgeFilled
    \/ OnTradeTicks

Spec == Init /\ [][Next]_vars

\* ------------------------------------------------- a recorded feed, replayed

\* Quote updates of a market in which the ETF stays at a midpoint of 100.00
\* and the future swings around 25 times that with a growing amplitude:
\* (instrument, <<best bid, best ask>>) in the order of arrival.
Feed ==
    << <<0, <<269900, 270100>>>>, <<1, <<9900, 10100>>>>, <<0, <<249900, 250100>>>>,
       <<0, <<229900, 230100>>>>, <<0, <<289900, 290100>>>>, <<0, <<159900, 160100>>>>,
       <<0, <<299900, 300100>>>>, <<0, <<109900, 110100>>>>, <<0, <<309900, 310100>>>>,
       <<0, <<59900, 60100>>>>, <<0, <<319900, 320100>>>>, <<0, <<9900, 10100>>>> >>

\* on_order_book_update_message for the next quote update of the feed.
ReplayQuote ==
    /\ nquotes < Len(Feed)
    /\ BookUpdate(Feed[nquotes + 1][1], Feed[nquotes + 1][2])

\* on_order_filled_message for the order sent last, a fill-and-kill order
\* that trades on arrival or not at all, filled for its whole volume.
ReplayFill ==
    /\ sent # <<>>
    /\ filled[Len(sent)] = 0
    /\ OrderFilled(Len(sent), Last(sent).volume)

NextReplay ==
    \/ ReplayQuote
    \/ ReplayFill

SpecReplay == Init /\ [][NextReplay]_vars

\* ------------------------------------------------------------------ claims

Inserts == {i \in 1..Len(sent) : sent[i].kind = "insert"}
Hedges == {i \in 1..Len(sent) : sent[i].kind = "hedge"}

\* The quote update of this step folded a ratio sample and computed a z-score
\* from it (zscore' is that z-score).
Yields == Len(ratios') = Len(ratios) + 1 /\ standard_deviation_sum' # Zero

\* The side the current trough trades on.
ActiveSide == IF BuyingTroph THEN "BUY" ELSE "SELL"

\* The gate key of a side and a signal strength.
GateKey(side, ss) ==
    (IF ss = STRONG_INDICATOR THEN "Strong" ELSE IF ss = MEDIUM_INDICATOR THEN "Medium" ELSE "Weak")
        \o (IF side = "BUY" THEN "Buy" ELSE "Sell")

\* C1: within one trough instance at most one primary order is submitted per
\* (tier, side): no two orders sent with send_insert_order carry the same
\* trough instance, side and signal strength.
C1_OnePerTierPerTrough ==
    \A i, j \in Inserts :
        (sent[i].trough = sent[j].trough /\ sent[i].side = sent[j].side
            /\ sent[i].strength = sent[j].strength) => i = j

\* A z-score of the current trough classifies at the strength of an order sent
\* earlier in this trough, on an earlier sample: the repeat was suppressed.
C1_Witness ==
    /\ zscore.def /\ AbsGeq(zscore, WEAK_INDICATOR)
    /\ \E i \in Inserts :
         /\ sent[i].trough = troughNo
         /\ sent[i].strength = Strength(zscore)
         /\ sent[i].sample < Len(ratios)
         /\ sent[i].side = ActiveSide

\* C2: in every trough instance, re-entered ones included, the first z-score
\* that classifies at a tier finds that tier's gate flag of the active side
\* false, sets it and submits one order at the tier's volume: whenever the
\* latest z-score reaches the weak threshold, an order of its strength, of the
\* active side and of the current trough instance has been sent.
C2_FirstSignalSends ==
    (zscore.def /\ AbsGeq(zscore, WEAK_INDICATOR)) =>
        /\ ActiveOrders[GateKey(ActiveSide, Strength(zscore))] = TRUE
        /\ \E i \in Inserts :
             /\ sent[i].trough = troughNo
             /\ sent[i].side = ActiveSide
             /\ sent[i].strength = Strength(zscore)
             /\ sent[i].volume = VolumeToBuy(Strength(zscore))

\* C3: immediately after a regime transition the three gate flags of the
\* vacated side are false.
C3_VacatedFlagsCleared ==
    [][(BuyingTroph' # BuyingTroph) =>
          IF BuyingTroph'
          THEN \A k \in {"StrongSell", "MediumSell", "WeakSell"} : ActiveOrders'[k] = FALSE
          ELSE \A k \in {"StrongBuy", "MediumBuy", "WeakBuy"} : ActiveOrders'[k] = FALSE]_vars

\* C4: every fill callback for an order sent with send_insert_order moves the
\* position by the filled volume, up for a buy and down for a sell, and sends
\* one hedge order of that volume on the opposite side, whatever callbacks
\* came between the submission and the fill.
C4_FillMovesPositionAndHedges ==
    [][\A i \in Inserts : \A volume \in FillVolumes(i) :
          OrderFilled(i, volume) =>
              /\ position' = position + (IF sent[i].side = "BUY" THEN volume ELSE -volume)
              /\ Len(sent') = Len(sent) + 1
              /\ Last(sent').kind = "hedge"
              /\ Last(sent').volume = volume
              /\ Last(sent').side = (IF sent[i].side = "BUY" THEN "ASK" ELSE "BID")]_vars

\* C5: the regime is the buying trough before any quote update, and in every
\* reachable state exactly one of BuyingTroph and SellingTroph is true.
C5_ExactlyOneTrough ==
    /\ BuyingTroph \in BOOLEAN /\ SellingTroph \in BOOLEAN
    /\ BuyingTroph # SellingTroph
    /\ nquotes = 0 => BuyingTroph

\* The selling trough is on after three regime transitions and a fill.
C5_Witness == SellingTroph /\ troughNo >= 3 /\ nfills >= 1

\* C6: on a quote update that yields a z-score the regime goes from selling to
\* buying only if zscore < 0 and from buying to selling only if zscore > 0,
\* and it does so whether or not abs(zscore) reaches the weak threshold; a
\* z-score of zero or of the sign of the current regime leaves the regime as
\* it is, so the second of two consecutive z-scores of one sign never flips it.
C6_Hysteresis ==
    [][Yields =>
          /\ (SellingTroph /\ BuyingTroph') => zscore'.sgn < 0
          /\ (BuyingTroph /\ SellingTroph') => zscore'.sgn > 0
          /\ (SellingTroph /\ zscore'.sgn < 0) => BuyingTroph'
          /\ (BuyingTroph /\ zscore'.sgn > 0) => SellingTroph'
          /\ (zscore'.sgn = 0 \/ (zscore'.sgn < 0 /\ BuyingTroph) \/ (zscore'.sgn > 0 /\ SellingTroph))
                => UNCHANGED <<BuyingTroph, SellingTroph>>
          /\ (zscore.def /\ zscore.sgn # 0 /\ zscore'.sgn = zscore.sgn)
                => UNCHANGED <<BuyingTroph, SellingTroph>>]_vars

\* The regime flipped on a z-score below the weak threshold: the latest
\* z-score is below it and no order was sent in the trough it entered.
C6_Witness ==
    /\ troughNo >= 1
    /\ zscore.def /\ zscore.sgn # 0 /\ ~AbsGeq(zscore, WEAK_INDICATOR)
    /\ Inserts # {} /\ \A i \in Inserts : sent[i].trough < troughNo

\* C7: the ids of the orders handed to send_insert_order and send_hedge_order
\* come from one counter: the first is 1, each later one is greater than all
\* before it and none is issued twice.
C7_OrderIds ==
    /\ \A i \in 1..Len(sent) : sent[i].id = i
    /\ order_ids = Len(sent) + 1

\* Primary and hedge orders of both sides were sent.
C7_Witness ==
    /\ \E i \in Hedges : \E j \in Inserts : i < j
    /\ \E i \in Inserts : sent[i].side = "BUY"
    /\ \E i \in Inserts : sent[i].side = "SELL"

\* C8: a status callback with remaining_volume = 0 for the id tracked as
\* bid_id (or ask_id) resets the tracked id to 0 and removes the id from bids
\* and asks, which leaves the id tracked nowhere; the same callback for an id
\* tracked nowhere (its second delivery) changes nothing.  The handler has one
\* outcome, so ENABLED (handler /\ P) says that its outcome satisfies P.
C8_StatusCleansUpOnce ==
    \A id \in InsertIds :
        /\ (id = bid_id \/ id = ask_id) =>
              ENABLED (/\ OrderStatus(id, 0)
                       /\ id = bid_id => bid_id' = 0
                       /\ id = ask_id => ask_id' = 0
                       /\ id \notin bids' /\ id \notin asks'
                       /\ bid_id' # id /\ ask_id' # id)
        /\ (id \notin bids /\ id \notin asks /\ bid_id # id /\ ask_id # id) =>
              ENABLED (OrderStatus(id, 0) /\ UNCHANGED vars)

\* The tracked bid and the tracked ask were both cleaned up, and an order of
\* each side was sent.
C8_Witness ==
    /\ bid_id = 0 /\ ask_id = 0 /\ bids = {} /\ asks = {}
    /\ \E i \in Inserts : sent[i].side = "BUY"
    /\ \E i \in Inserts : sent[i].side = "SELL"

\* C9: on_error_message for a non-zero id that is in bids or asks leaves the
\* state on_order_status_message(id, 0, 0, 0) would leave: the tracked id is
\* cleared if it matches and the id leaves both sets; with id = 0 or an id in
\* neither set it changes nothing.
C9_ErrorIsZeroStatus ==
    \A id \in InsertIds \cup {0} :
        IF id # 0 /\ (id \in bids \/ id \in asks)
        THEN ENABLED (/\ Error(id)
                      /\ OrderStatus(id, 0)
                      /\ bid_id' = (IF id = bid_id THEN 0 ELSE bid_id)
                      /\ ask_id' = (IF id = ask_id THEN 0 ELSE ask_id)
                      /\ bids' = bids \ {id}
                      /\ asks' = asks \ {id})
        ELSE ENABLED (Error(id) /\ UNCHANGED vars)

\* An ask was cleaned up while a bid is still live and tracked: an error for
\* the one is the zero status, an error for the other changes the state.
C9_Witness ==
    /\ bid_id # 0 /\ bid_id \in bids
    /\ ask_id = 0 /\ asks = {}
    /\ \E i \in Inserts : sent[i].side = "SELL"

\* C10: a quote update processed while an instrument has no recorded midpoint,
\* or while the running standard deviation is zero, takes no decision: no
\* order is sent, no id is consumed, and regime, gate flags, position and
\* tracked ids stay as they were.
C10_NoDecisionWithoutZScore ==
    [][(nquotes' = nquotes + 1
          /\ (\/ future_price' = <<>>
              \/ etf_price' = <<>>
              \/ (Len(ratios') = Len(ratios) + 1 /\ standard_deviation_sum' = Zero)))
         => UNCHANGED <<order_ids, sent, BuyingTroph, SellingTroph, ActiveOrders,
                        troughNo, position, bid_id, ask_id, bids, asks, zscore>>]_vars

\* Orders were sent after a quote update with a missing midpoint and two with
\* a zero standard deviation had been processed.
C10_Witness ==
    /\ Len(ratios) = 3 /\ nquotes = 4
    /\ ratios[1] = ratios[2]
    /\ Inserts # {}

\* A quote update was processed in this step.
QuoteStep == nquotes' = nquotes + 1

\* This step handed one more order to the gateway with send_insert_order.
Submits == Len(sent') = Len(sent) + 1 /\ Last(sent').kind = "insert"

\* C11: the volume of a primary order is fixed by the highest threshold its
\* z-score meets: abs(zscore) >= 2 gives 20 lots, otherwise >= 1.5 gives 15,
\* otherwise >= 1 gives 10; a z-score with abs(zscore) < 1 submits nothing.
C11_VolumeByTier ==
    [][(QuoteStep /\ Yields) =>
          /\ Submits =>
                Last(sent').volume =
                    (IF RGeq(zscore'.sq, <<4, 1>>) THEN 20
                     ELSE IF RGeq(zscore'.sq, <<9, 4>>) THEN 15
                     ELSE 10)
          /\ RLess(zscore'.sq, <<1, 1>>) => sent' = sent]_vars

\* A medium order of 15 lots and a weak order of 10 lots were sent.
C11_Witness == \A v \in {10, 15} : \E i \in Inserts : sent[i].volume = v

RECURSIVE SumOf(_)
SumOf(s) == IF s = <<>> THEN Zero ELSE RAdd(SumOf(SubSeq(s, 1, Len(s) - 1)), Last(s))

\* The ratio the midpoints recorded after this step give.
LatestRatio == RDiv(Last(future_price'), Last(etf_price'))

\* C12 as claimed: the running sum is the sum of the ratio samples folded and
\* the count their number, and a quote update folds one sample exactly when
\* both instruments have a recorded midpoint.
C12_OneSamplePerQuote ==
    [][QuoteStep =>
          /\ ratios_sum' = SumOf(ratios')
          /\ IF future_price' # <<>> /\ etf_price' # <<>>
             THEN Len(ratios') = Len(ratios) + 1
             ELSE ratios' = ratios]_vars

\* C12 as amended: the running sum is the sum of the ratio samples folded and
\* the count their number; a quote update folds one sample, the ratio of the
\* latest midpoints, exactly when both instruments have a recorded midpoint
\* and the ETF's latest midpoint is not zero.
C12_OneSamplePerQuoteNonZeroEtf ==
    [][QuoteStep =>
          /\ ratios_sum' = SumOf(ratios')
          /\ IF future_price' # <<>> /\ etf_price' # <<>> /\ Last(etf_price') # Zero
             THEN ratios' = Append(ratios, LatestRatio)
             ELSE ratios' = ratios]_vars

\* Three different samples were folded and a quote update with a zero ETF
\* midpoint folded none.
C12_Witness ==
    /\ Len(ratios) = 3 /\ nquotes = 5
    /\ ratios[1] # ratios[2] /\ ratios[2] # ratios[3] /\ ratios[1] # ratios[3]
    /\ \E k \in 1..Len(etf_price) : etf_price[k] = Zero

\* Ids of the hedge orders sent so far.
HedgeIds == {sent[i].id : i \in Hedges}

\* C13: on_trade_ticks_message and on_hedge_filled_message change no variable
\* of the engine and submit nothing, and no id of a hedge order is ever in
\* bids or asks.
C13_InformationalHandlers ==
    /\ ~ ENABLED (OnTradeTicks /\ vars' # vars)
    /\ ~ ENABLED (OnHedgeFilled /\ vars' # vars)
    /\ HedgeIds \cap (bids \cup asks) = {}

\* A hedge order was sent while a primary order is still tracked.
C13_Witness == Hedges # {} /\ bids \cup asks # {} /\ ENABLED OnHedgeFilled

\* C14: a quote update submits a buy order only when bid_id is 0 and a sell
\* order only when ask_id is 0, so that no side ever has two live orders.
C14_SubmitsOnlyWhenSideIdle ==
    [][(QuoteStep /\ Submits) =>
          /\ Last(sent').side = "BUY" => bid_id = 0 /\ Cardinality(bids') <= 1
          /\ Last(sent').side = "SELL" => ask_id = 0 /\ Cardinality(asks') <= 1]_vars

\* The gate of the trough the z-score of this step leads to lets an order of
\* that z-score's strength through.
Authorizes(buying) ==
    /\ QuoteStep /\ Yields /\ AbsGeq(zscore', WEAK_INDICATOR)
    /\ LET tr == Troph(zscore', BuyingTroph, SellingTroph, ActiveOrders)
       IN  /\ tr.BuyingTroph = buying
           /\ IF buying
              THEN GateSide(tr.ActiveOrders, Strength(zscore'), "StrongBuy", "MediumBuy", "WeakBuy").orderSend
              ELSE GateSide(tr.ActiveOrders, Strength(zscore'), "StrongSell", "MediumSell", "WeakSell").orderSend

\* This step sent exactly one order, a fill-and-kill order of the given side
\* under an id no earlier order has.
SubmitsOne(side) ==
    /\ Submits
    /\ SubSeq(sent', 1, Len(sent)) = sent
    /\ Last(sent').side = side
    /\ Last(sent').lifespan = "FILL_AND_KILL"
    /\ \A i \in 1..Len(sent) : sent[i].id # Last(sent').id

\* C15: when the gate authorizes an order in the buying trough, one BUY
\* fill-and-kill order is sent under a fresh id, which becomes bid_id and
\* joins bids, and ask_id, asks and position stay; in the selling trough one
\* SELL order is sent, its id becomes ask_id and joins asks, and bid_id, bids
\* and position stay.
C15_SubmissionEffect ==
    [][/\ Authorizes(TRUE) =>
            /\ SubmitsOne("BUY")
            /\ bid_id' = Last(sent').id
            /\ bids' = bids \cup {Last(sent').id}
            /\ UNCHANGED <<ask_id, asks, position>>
       /\ Authorizes(FALSE) =>
            /\ SubmitsOne("SELL")
            /\ ask_id' = Last(sent').id
            /\ asks' = asks \cup {Last(sent').id}
            /\ UNCHANGED <<bid_id, bids, position>>]_vars

\* A buy order replaced a tracked bid_id and a sell order was sent too.
C15_Witness ==
    /\ Cardinality(bids) >= 2 /\ bid_id \in bids
    /\ asks # {} /\ ask_id \in asks

\* The quotient of position by LOT_SIZE rounded toward minus infinity.
FloorLots(pos) ==
    CHOOSE k \in (- Abs(pos))..Abs(pos) : LOT_SIZE * k <= pos /\ pos < LOT_SIZE * (k + 1)

\* C16: the price of an order is the best price of its side in the quote
\* update that sent it, plus -(position // LOT_SIZE) * TICK_SIZE_IN_CENTS with
\* the quotient rounded down and the position read at the quote update; a
\* best price of 0 gives price 0.
C16_PriceSkew ==
    [][\A instrument \in Instruments : \A q \in Quotes(instrument) :
          (BookUpdate(instrument, q) /\ Submits) =>
              LET best == IF Last(sent').side = "BUY" THEN q[1] ELSE q[2]
              IN  Last(sent').price =
                      (IF best = 0 THEN 0
                       ELSE best - FloorLots(position) * TICK_SIZE_IN_CENTS)]_vars

\* An order was priced after a fill had left a negative position that is not
\* a multiple of LOT_SIZE.
C16_Witness ==
    /\ position < 0 /\ position % LOT_SIZE # 0
    /\ \E h \in Hedges : \E i \in Inserts : i > h /\ sent[i].price # 0

\* C17: whatever quote updates and fills arrive, with no order filled for more
\* than its volume, the position stays between -POSITION_LIMIT and
\* POSITION_LIMIT.
C17_PositionWithinLimit ==
    /\ \A i \in Inserts : filled[i] <= sent[i].volume
    /\ - POSITION_LIMIT <= position /\ position <= POSITION_LIMIT

\* C18: a buy order is sent only by a quote update whose z-score is <= -1 and
\* a sell order only by one whose z-score is >= +1; after a quote update that
\* computed a z-score the trough is the buying one only if that z-score is
\* <= 0 and the selling one only if it is >= 0.
C18_OrderOpposesSpread ==
    [][(QuoteStep /\ Yields) =>
          /\ BuyingTroph' => zscore'.sgn <= 0
          /\ SellingTroph' => zscore'.sgn >= 0
          /\ Submits =>
                /\ RGeq(zscore'.sq, <<1, 1>>)
                /\ zscore'.sgn = (IF Last(sent').side = "BUY" THEN -1 ELSE 1)]_vars

\* The latest quote update sent a buy order and an earlier one a sell order.
C18_Witness ==
    /\ Inserts # {} /\ Len(sent) \in Inserts
    /\ Last(sent).side = "BUY" /\ Last(sent).sample = Len(ratios)
    /\ zscore.sgn = -1
    /\ \E i \in Inserts : sent[i].side = "SELL"

\* C19: bids and asks are disjoint, a non-zero bid_id is in bids and a
\* non-zero ask_id in asks, and every id in bids is the id of a buy order and
\* every id in asks the id of a sell order sent with send_insert_order, below
\* the next id of the counter.
C19_TrackingConsistent ==
    /\ bids \cap asks = {}
    /\ bid_id # 0 => bid_id \in bids
    /\ ask_id # 0 => ask_id \in asks
    /\ \A id \in bids : id < order_ids /\ \E i \in Inserts : sent[i].id = id /\ sent[i].side = "BUY"
    /\ \A id \in asks : id < order_ids /\ \E i \in Inserts : sent[i].id = id /\ sent[i].side = "SELL"

\* A status callback cleaned up one of several orders that were tracked.
C19_Witness ==
    /\ bids # {} /\ asks # {}
    /\ \E i \in Inserts : sent[i].id \notin bids \cup asks
    /\ Hedges # {}

RECURSIVE HedgedVolume(_, _)
HedgedVolume(s, side) ==
    IF s = <<>> THEN 0
    ELSE HedgedVolume(SubSeq(s, 1, Len(s) - 1), side)
         + (IF Last(s).kind = "hedge" /\ Last(s).side = side THEN Last(s).volume ELSE 0)

\* C20: the position is the volume of the hedge sell orders sent so far minus
\* the volume of the hedge buy orders sent so far.
C20_PositionIsHedged == position = HedgedVolume(sent, "ASK") - HedgedVolume(sent, "BID")

\* A fill moved the position and was hedged.
C20_Witness == position # 0 /\ Hedges # {} /\ \E i \in Inserts : filled[i] > 0

====
